---- MODULE Spec2Model ----
(***************************************************************************)
(* FileShare: the share lifecycle of SecureFileSharing (secure_sharing.py) *)
(* over the key custody service (key_management.py), the stored rows       *)
(* (models.py) and the envelope engine (crypto_utils.py, crypto_plugins).  *)
(*                                                                         *)
(* Byte strings produced by os.urandom are modelled as fresh symbolic      *)
(* values: a share key is named by the share it was drawn for, a keypair   *)
(* by a counter.  AES-GCM and the KEM are modelled by what they return:    *)
(* decryption yields the plaintext exactly when the key is the encryption  *)
(* key and None otherwise; Kyber decapsulation yields the encapsulated     *)
(* secret exactly for the matching private key; MockKEM returns unrelated  *)
(* random bytes.                                                           *)
(***************************************************************************)
EXTENDS Integers, Sequences, FiniteSets, TLC

\* ------------------------------------------------------------------ bounds
NumProcs == 2
MaxShares == 1
MaxTime == 2
MaxLimit == 2
MaxCount == 2

\* --------------------------------------------------------- value encodings
\* Python None for an integer column or argument.
NoLimit == -1
\* The password the server key is encrypted under ("server_static_key").
ServerPw == 100

\* Two accounts: user 1 owns the file, user 2 is the other user.
Users == {1, 2}
Procs == 1..NumProcs
\* 0 is "no user in the session" (session.get('user_id') is None).
Requesters == {0} \cup Users
\* User u logs in with password u; 0 is a missing password.  For user u the
\* password of the other user is a wrong password.
Password(u) == u
PasswordInputs == {0} \cup {Password(u) : u \in Users}
\* One uploaded file; it belongs to user 1 and is on disk.
Files == {1}
FileInputs == Files
FileOwner(f) == f
FileData(f) == f
MaxDownloadsInputs == {NoLimit} \cup (0..MaxLimit)
ExpiryHoursInputs == {1}
ShareTypes == {"public", "private"}
\* 0 is "no target_user_id".
TargetInputs == {0} \cup Users
KemProviders == {"kyber", "mock", "none"}

\* Python truthiness of an Optional[int]: None and 0 are false.
Truthy(x) == x # NoLimit /\ x # 0

\* base64: encoding tags the key, decoding a malformed token raises.
B64Encode(k) == [valid |-> TRUE, key |-> k]
BadToken == [valid |-> FALSE, key |-> 0]
B64Valid(t) == t.valid
B64Decode(t) == t.key

\* AES-256-GCM (nonce + tag + ciphertext): decrypts only under the same key.
NoData == 0
AeadEncrypt(key, data) == [k |-> key, p |-> data]
AeadDecrypt(env, key) == IF env.k = key THEN env.p ELSE NoData

\* The bytes of a KEM ciphertext or of a wrapped key are random: a byte is
\* b'|' (Bar) or another byte.  The samples are a string without a Bar, a
\* string with two Bars in a row and a string that ends in one Bar.
Bar == 1
OtherByte == 0
KemSeparator == <<Bar, Bar>>
ByteStringInputs == {<<OtherByte, OtherByte>>, <<Bar, Bar>>, <<OtherByte, Bar>>}

\* kem_ct + b'||' + wrapped_share_key (lines 258 and 277).
JoinKemCiphertext(c, w) == c \o KemSeparator \o w

\* bytes.split(b'||'): the separators are matched from the left without
\* overlap; the parts are the bytes between them.
SplitBytes(s) ==
    LET sepAt[i \in 0..Len(s)] ==
            IF i = 0 THEN FALSE
            ELSE /\ i < Len(s)
                 /\ s[i] = Bar
                 /\ s[i + 1] = Bar
                 /\ ~sepAt[i - 1]
        seps == {i \in 1..Len(s) : sepAt[i]}
        Nth(k) == CHOOSE i \in seps : Cardinality({j \in seps : j < i}) = k - 1
        From(k) == IF k = 1 THEN 1 ELSE Nth(k - 1) + 2
        To(k) == IF k = Cardinality(seps) + 1 THEN Len(s) ELSE Nth(k) - 1
    IN  [k \in 1..(Cardinality(seps) + 1) |-> SubSeq(s, From(k), To(k))]

VARIABLES kem, now, userKeys, serverKeys, shares, blobs, req,
          delivered, last

vars == <<kem, now, userKeys, serverKeys, shares, blobs, req,
          delivered, last>>

\* ------------------------------------------------------------ KEM provider
\* pq_enabled: a provider was loaded and is_available(); create_app attaches
\* key_mgmt exactly in that case.
PqEnabled == kem # "none"
AlgorithmName == IF kem = "mock" THEN "Mock-Kyber768" ELSE "Kyber768"
NoAlgorithm == ""

\* The randomness of one encapsulate_key call (the KEM's coins and the GCM
\* nonce), named by the share it is made for and by the bytes it gives the
\* KEM ciphertext and the wrapped key.
Coins(sid, c, w) == <<sid, c, w>>

\* encapsulate(public_key) -> (ciphertext, shared_secret); n names the
\* randomness of the call.  Kyber binds both to the keypair, MockKEM draws
\* both with os.urandom.
Encapsulate(pk, n) ==
    IF kem = "kyber" THEN [ct |-> <<pk, n>>, ss |-> <<pk, n>>]
    ELSE [ct |-> <<0, n>>, ss |-> <<0, n>>]

\* A decapsulation that does not depend on the private key.
DecapsulateAnyKey(ct, sk) == ct
\* decapsulate(ciphertext, private_key): Kyber returns the encapsulated secret
\* for the matching private key and the implicit-rejection secret for any
\* other; MockKEM returns fresh random bytes.
Decapsulate(ct, sk) ==
    IF kem = "kyber"
    THEN IF ct[1] = sk THEN ct ELSE <<0 - sk, ct[2]>>
    ELSE <<0 - 1, ct[2]>>

\* PQKeyManager.encapsulate_key, joined for storage as kem_ct + b'||' + wrapped.
NoKey == 0
NoSecret == <<0, Coins(0, <<>>, <<>>)>>
NoKemCt == [ct |-> NoSecret, w |-> [k |-> NoSecret, p |-> NoKey]]
EncapsulateKey(aes_key, public_key, n) ==
    LET e == Encapsulate(public_key, n)
    IN  [ct |-> e.ct, w |-> AeadEncrypt(e.ss, aes_key)]

CleanCoins == <<<<OtherByte, OtherByte>>, <<OtherByte, OtherByte>>>>
CoinInputs == {<<c, <<OtherByte, OtherByte>>>> : c \in ByteStringInputs}
\* The draws a creation is followed through: every sample for the target's
\* column; the sample without a Bar for the server's column, whose reader
\* falls back to the stored key when it cannot split or unwrap (lines
\* 472-491).
CoinsFor(stype) == IF stype = "private" THEN CoinInputs ELSE {CleanCoins}
KemCtBytes(kem_ct) == kem_ct[2][2]
WrappedBytes(wrapped) == wrapped.k[2][3]

\* The stored column read back: target_kem_ciphertext.split(b'||') (lines 449
\* and 472), with the splits of the sampled byte strings computed once.  A
\* part that is not the KEM ciphertext or the wrapped key that was joined is
\* a byte string no encapsulation produced.
StoredParts ==
    [c \in ByteStringInputs, w \in ByteStringInputs |->
        SplitBytes(JoinKemCiphertext(c, w))]
SplitKemCiphertext(stored) ==
    LET c == KemCtBytes(stored.ct)
        w == WrappedBytes(stored.w)
        parts == IF <<c, w>> \in DOMAIN StoredParts THEN StoredParts[c, w]
                 ELSE SplitBytes(JoinKemCiphertext(c, w))
    IN  [k \in 1..Len(parts) |->
            IF parts = <<c, w>>
            THEN IF k = 1 THEN stored.ct ELSE stored.w
            ELSE IF k = 1 THEN NoKemCt.ct ELSE NoKemCt.w]

\* PQKeyManager.decapsulate_key: None when the provider is missing or the
\* AES-GCM tag of the wrapped key does not verify.
DecapsulateKey(kem_ct, wrapped, private_key) ==
    IF ~PqEnabled THEN NoKey
    ELSE AeadDecrypt(wrapped, Decapsulate(kem_ct, private_key))

\* --------------------------------------------------------------- custody
NoPrivBlob == [sk |-> 0, pw |-> 0]
NoUserKeys == [pub |-> 0, priv |-> NoPrivBlob]
\* An encryption under the fixed server password instead of the caller's.
EncryptPrivateKeyStaticPassword(private_key, pw) ==
    [sk |-> private_key, pw |-> ServerPw]
EncryptPrivateKey(private_key, pw) == [sk |-> private_key, pw |-> pw]
\* A decryption that does not authenticate the password.
DecryptPrivateKeyAnyPassword(blob, pw) == blob.sk
DecryptPrivateKey(blob, pw) == IF blob.pw = pw THEN blob.sk ELSE NoKey

GetUserPublicKey(u) == IF u \in Users THEN userKeys[u].pub ELSE NoKey

GetUserPrivateKey(u, pw) ==
    IF ~PqEnabled THEN NoKey
    ELSE IF u \notin Users \/ userKeys[u].priv = NoPrivBlob THEN NoKey
    ELSE DecryptPrivateKey(userKeys[u].priv, pw)

\* ServerKEMModel.get_active_server_key: the newest active row, or none (0).
ActiveServerRows(key_id) ==
    {i \in 1..Len(serverKeys) :
        serverKeys[i].key_id = key_id /\ serverKeys[i].is_active}
GetActiveServerKey(key_id) ==
    IF ActiveServerRows(key_id) = {} THEN 0
    ELSE CHOOSE i \in ActiveServerRows(key_id) :
            \A j \in ActiveServerRows(key_id) : j <= i
GetServerPublicKey(key_id) ==
    IF GetActiveServerKey(key_id) = 0 THEN NoKey
    ELSE serverKeys[GetActiveServerKey(key_id)].pub
GetServerPrivateKey(key_id) ==
    IF ~PqEnabled \/ GetActiveServerKey(key_id) = 0 THEN NoKey
    ELSE DecryptPrivateKey(serverKeys[GetActiveServerKey(key_id)].priv, ServerPw)

\* ------------------------------------------------------------ bookkeeping
\* The call that returned in the step just taken: the operation, the share
\* and the caller it was made with, and its result.  A request in flight
\* keeps its own arguments in req.
Ret(op, sid, uid, ok, msg, payload) ==
    [op |-> op, sid |-> sid, uid |-> uid, ok |-> ok, msg |-> msg,
     payload |-> payload]
NoCall(op) == Ret(op, 0, 0, TRUE, "", NoData)

\* A request between its read of the record and its increment holds the
\* handler's locals: the share, the session user, the password it decrypted
\* the user's private key with (0 when it did not), the key it recovered and
\* the decrypted payload.
IdleReq == [pc |-> "idle", sid |-> 0, uid |-> 0, pw |-> 0, key |-> NoKey,
            payload |-> NoData]

\* The wall clock advances (hours).
Tick ==
    /\ now < MaxTime
    /\ now' = now + 1
    /\ last' = NoCall("tick")
    /\ UNCHANGED <<kem, userKeys, serverKeys, shares, blobs, req,
                   delivered>>

\* generate_keypair: a fresh random keypair, named by its holder (the public
\* and the private key of keypair k are both written k, in separate columns).
UserKeypair(u) == u
ServerKeypair == Cardinality(Users) + 1

\* A user id that has no row in users.
NoSuchUser == Cardinality(Users) + 1
UserIdInputs == Users \cup {NoSuchUser}

\* generate_keypair in a call for user u: a keypair u's row does not hold.
FreshUserKeypair(u) ==
    IF u \in Users /\ userKeys[u].pub # NoKey
    THEN userKeys[u].pub + Cardinality(Users) + 1
    ELSE UserKeypair(u)

\* UserModel.update_user_pq_keys: UPDATE users ... WHERE id = ?, which
\* changes nothing when no row has that id.
UpdateUserPqKeys(u, public_key, private_key_encrypted) ==
    IF u \in Users
    THEN [userKeys EXCEPT ![u] = [pub |-> public_key,
                                  priv |-> private_key_encrypted]]
    ELSE userKeys

\* ensure_user_keys without its early return for existing keys.
EnsureUserKeysRegenerates(u, pw) ==
    /\ IF ~PqEnabled
       THEN /\ last' = Ret("ensure_user_keys", 0, u, FALSE, "", NoData)
            /\ UNCHANGED userKeys
       ELSE /\ userKeys' = UpdateUserPqKeys(u, FreshUserKeypair(u),
                               EncryptPrivateKey(FreshUserKeypair(u), pw))
            /\ last' = Ret("ensure_user_keys", 0, u, TRUE, "", NoData)
    /\ UNCHANGED <<kem, now, serverKeys, shares, blobs, req, delivered>>
\* KeyManagementService.ensure_user_keys, as login and signup call it.
EnsureUserKeys(u, pw) ==
    /\ IF ~PqEnabled
       THEN /\ last' = Ret("ensure_user_keys", 0, u, FALSE, "", NoData)
            /\ UNCHANGED userKeys
       ELSE IF u \in Users /\ userKeys[u].pub # NoKey
       THEN /\ last' = Ret("ensure_user_keys", 0, u, TRUE, "", NoData)
            /\ UNCHANGED userKeys
       ELSE /\ userKeys' = UpdateUserPqKeys(u, FreshUserKeypair(u),
                               EncryptPrivateKey(FreshUserKeypair(u), pw))
            /\ last' = Ret("ensure_user_keys", 0, u, TRUE, "", NoData)
    /\ UNCHANGED <<kem, now, serverKeys, shares, blobs, req, delivered>>

\* PQ_STATIC_KEY_ROTATION_DAYS: the default, and a window of no days.
HoursPerDay == 24
DefaultRotationDays == 90
RotationDaysInputs == {0, DefaultRotationDays}

\* A check that asks for a new key at every call.
CheckKeyRotationAlways(key_id, rotation_days) == TRUE
\* ServerKEMModel.check_key_rotation_needed: created_date < now -
\* timedelta(days = rotation_days), on the clock's hours.
CheckKeyRotationNeeded(key_id, rotation_days) ==
    IF GetActiveServerKey(key_id) = 0 THEN TRUE
    ELSE serverKeys[GetActiveServerKey(key_id)].created_at
            < now - rotation_days * HoursPerDay

\* ServerKEMModel.save_server_key: key_id is UNIQUE in server_kem_keys, so the
\* INSERT raises when a row of that key_id exists and the uncommitted UPDATE
\* is rolled back.
ServerKeyIdTaken(key_id) ==
    \E i \in 1..Len(serverKeys) : serverKeys[i].key_id = key_id
ServerKeyRow(key_id, kid, t) ==
    [key_id |-> key_id, pub |-> kid, priv |-> EncryptPrivateKey(kid, ServerPw),
     created_at |-> t, is_active |-> TRUE]
SaveServerKey(key_id, kid) ==
    Append([i \in 1..Len(serverKeys) |->
               IF serverKeys[i].key_id = key_id
               THEN [serverKeys[i] EXCEPT !.is_active = FALSE]
               ELSE serverKeys[i]],
           ServerKeyRow(key_id, kid, now))

\* KeyManagementService.ensure_server_key(key_id, rotation_days), as
\* create_app calls it.
EnsureServerKey(key_id, rotation_days) ==
    /\ IF ~PqEnabled
       THEN /\ last' = Ret("ensure_server_key", 0, 0, FALSE, "", NoData)
            /\ UNCHANGED serverKeys
       ELSE IF ~CheckKeyRotationNeeded(key_id, rotation_days)
       THEN /\ last' = Ret("ensure_server_key", 0, 0, TRUE, "", NoData)
            /\ UNCHANGED serverKeys
       ELSE IF ServerKeyIdTaken(key_id)
       THEN /\ last' = Ret("ensure_server_key", 0, 0, FALSE, "", NoData)
            /\ UNCHANGED serverKeys
       ELSE /\ serverKeys' = SaveServerKey(key_id, ServerKeypair)
            /\ last' = Ret("ensure_server_key", 0, 0, TRUE, "", NoData)
    /\ UNCHANGED <<kem, now, userKeys, shares, blobs, req, delivered>>

\* generate_keypair in a later call for the server: a keypair no stored row
\* holds.
NewServerKeypair == ServerKeypair + (Cardinality(Users) + 1) * Len(serverKeys)

\* save_server_key whose INSERT raised, had its UPDATE been committed first.
SaveServerKeyRaisesCommitted(key_id) ==
    [i \in 1..Len(serverKeys) |->
        IF serverKeys[i].key_id = key_id
        THEN [serverKeys[i] EXCEPT !.is_active = FALSE]
        ELSE serverKeys[i]]
\* save_server_key whose INSERT raised IntegrityError: the connection is
\* dropped without commit, so the UPDATE before it is rolled back.
SaveServerKeyRaises(key_id) == serverKeys

\* KeyManagementService.rotate_server_key.
RotateServerKey(key_id) ==
    /\ IF ~PqEnabled
       THEN /\ last' = Ret("rotate_server_key", 0, 0, FALSE, "", NoData)
            /\ UNCHANGED serverKeys
       ELSE IF ServerKeyIdTaken(key_id)
       THEN /\ serverKeys' = SaveServerKeyRaises(key_id)
            /\ last' = Ret("rotate_server_key", 0, 0, FALSE, "", NoData)
       ELSE /\ serverKeys' = SaveServerKey(key_id, NewServerKeypair)
            /\ last' = Ret("rotate_server_key", 0, 0, TRUE, "", NoData)
    /\ UNCHANGED <<kem, now, userKeys, shares, blobs, req, delivered>>

\* ---------------------------------------------------------- share creation
ShareIds == 1..Len(shares)
\* _generate_share_id / generate_share_key: fresh random values.
ShareKey(sid) == sid
ShareFilename(sid) == sid
\* The keypairs generate_keypair produces first for each holder, and the
\* symmetric keys generate_share_key produces.
Keypairs == {UserKeypair(u) : u \in Users} \cup {ServerKeypair}
SymmetricKeys == {ShareKey(sid) : sid \in 1..MaxShares}

MsgNoFile == "File not found or access denied"
MsgNoTarget == "Target user is required for private shares"
MsgNoKem == "Quantum-secure sharing is not available (KEM not enabled)"
MsgNoTargetKey == "Target user does not have quantum-secure keys"
\* UserModel has no get_username_by_id: the call at the end of a private
\* creation raises AttributeError, which the outer handler reports.
MsgCreateError == "Error creating share: 'UserModel' object has no attribute 'get_username_by_id'"

\* A creation that does not look the target's public key up before it
\* writes.
CreateOutcomeNoKeyCheck(file_id, user_id, stype, target) ==
    IF file_id \notin Files \/ FileOwner(file_id) # user_id THEN MsgNoFile
    ELSE IF stype = "private" /\ target = 0 THEN MsgNoTarget
    ELSE IF stype = "private" /\ ~PqEnabled THEN MsgNoKem
    ELSE IF stype = "private" THEN MsgCreateError
    ELSE ""
\* A creation that refuses a public share when a provider is loaded and the
\* server has no active key to wrap under.
CreateOutcomeNeedsServerKey(file_id, user_id, stype, target) ==
    IF file_id \notin Files \/ FileOwner(file_id) # user_id THEN MsgNoFile
    ELSE IF stype = "private" /\ target = 0 THEN MsgNoTarget
    ELSE IF stype = "private" /\ ~PqEnabled THEN MsgNoKem
    ELSE IF stype = "private" /\ GetUserPublicKey(target) = NoKey
         THEN MsgNoTargetKey
    ELSE IF stype = "private" THEN MsgCreateError
    ELSE IF PqEnabled /\ GetServerPublicKey("default") = NoKey THEN MsgNoKem
    ELSE ""
\* create_share_from_file_id: the message of the result; "" is success.
CreateOutcome(file_id, user_id, stype, target) ==
    IF file_id \notin Files \/ FileOwner(file_id) # user_id THEN MsgNoFile
    ELSE IF stype = "private" /\ target = 0 THEN MsgNoTarget
    ELSE IF stype = "private" /\ ~PqEnabled THEN MsgNoKem
    ELSE IF stype = "private" /\ GetUserPublicKey(target) = NoKey
         THEN MsgNoTargetKey
    ELSE IF stype = "private" THEN MsgCreateError
    ELSE ""

\* The row inserted into shares (lines 306-318).
NewShareRecord(sid, user_id, hrs, maxd, stype, target, coins) ==
    LET wrapPublic == stype = "public" /\ PqEnabled
                      /\ GetServerPublicKey("default") # NoKey
        wrapPrivate == stype = "private" /\ PqEnabled
                       /\ GetUserPublicKey(target) # NoKey
    IN  [share_id |-> sid,
         encrypted_filename |-> ShareFilename(sid),
         user_id |-> user_id,
         expiry_time |-> now + hrs,
         max_downloads |-> maxd,
         download_count |-> 0,
         is_active |-> TRUE,
         encryption_key |-> B64Encode(ShareKey(sid)),
         kem_ciphertext |->
            IF wrapPublic
            THEN EncapsulateKey(ShareKey(sid), GetServerPublicKey("default"),
                                Coins(sid, coins[1], coins[2]))
            ELSE NoKemCt,
         kem_algorithm |-> IF wrapPublic THEN AlgorithmName ELSE NoAlgorithm,
         kem_key_id |-> IF wrapPublic THEN "default" ELSE "",
         share_type |-> stype,
         target_user_id |-> target,
         target_kem_ciphertext |->
            IF wrapPrivate
            THEN EncapsulateKey(ShareKey(sid), GetUserPublicKey(target),
                                Coins(sid, coins[1], coins[2]))
            ELSE NoKemCt,
         target_kem_algorithm |->
            IF wrapPrivate THEN AlgorithmName ELSE NoAlgorithm]

CreateShare(file_id, user_id, hrs, maxd, stype, target) ==
    LET msg == CreateOutcome(file_id, user_id, stype, target)
        sid == Len(shares) + 1
    IN  /\ IF msg \in {"", MsgCreateError}
           THEN /\ Len(shares) < MaxShares
                /\ blobs' = Append(blobs,
                              AeadEncrypt(ShareKey(sid), FileData(file_id)))
                /\ \E coins \in CoinsFor(stype) :
                      shares' = Append(shares,
                          NewShareRecord(sid, user_id, hrs, maxd, stype,
                                         target, coins))
                /\ delivered' = Append(delivered, 0)
           ELSE UNCHANGED <<shares, blobs, delivered>>
        /\ last' = IF msg = ""
                   THEN Ret("create", sid, user_id, TRUE, msg, NoData)
                   ELSE Ret("create", 0, user_id, FALSE, msg, NoData)
        /\ UNCHANGED <<kem, now, userKeys, serverKeys, req>>

\* ------------------------------------------------------------- redemption
MsgNotFound == "Share not found or expired"
MsgDeactivated == "Share has been deactivated"
MsgExpired == "Share has expired"
MsgLimit == "Download limit reached"
MsgAuthRequired == "Authentication required for private shares"
MsgAccessDenied == "Access denied: This private share is not for you"
MsgPwRequired == "User password required to access private share"
MsgNoPq == "Quantum-secure decryption not available"
MsgBadPassword == "Failed to decrypt your private key - incorrect password?"
MsgDecapFailed == "Failed to decapsulate share key"
MsgInvalidKem == "Invalid KEM ciphertext format"
MsgKeyMismatch == "Invalid share link - key mismatch"
MsgValidation == "Share link validation error"
MsgDecryptFailed == "Failed to decrypt file - decryption error"

\* Lines 436-491: the key the payload is decrypted with, given that the
\* private-share rejections did not apply.
UsesTargetKem(rec) ==
    /\ rec.share_type = "private"
    /\ rec.target_kem_ciphertext # NoKemCt
    /\ rec.target_kem_algorithm # NoAlgorithm
UsesServerKem(rec) ==
    /\ ~UsesTargetKem(rec)
    /\ rec.kem_ciphertext # NoKemCt
    /\ rec.kem_algorithm # NoAlgorithm
    /\ PqEnabled
    /\ rec.share_type = "public"
ServerDecapsulated(rec) ==
    LET key_id == IF rec.kem_key_id = "" THEN "default" ELSE rec.kem_key_id
        sk == GetServerPrivateKey(key_id)
        parts == SplitKemCiphertext(rec.kem_ciphertext)
    IN  IF Len(parts) # 2 \/ sk = NoKey THEN NoKey
        ELSE DecapsulateKey(parts[1], parts[2], sk)
\* Lines 449-464: the parts of the target's column, and the key they give.
TargetParts(rec) == SplitKemCiphertext(rec.target_kem_ciphertext)
\* The split gave back the KEM ciphertext and the wrapped key as joined.
TargetColumnSplits(rec) ==
    TargetParts(rec) = <<rec.target_kem_ciphertext.ct,
                         rec.target_kem_ciphertext.w>>
ActualShareKey(rec, uid, pw) ==
    LET stored_key == B64Decode(rec.encryption_key)
    IN  IF UsesTargetKem(rec)
        THEN IF Len(TargetParts(rec)) # 2 THEN NoKey
             ELSE DecapsulateKey(TargetParts(rec)[1], TargetParts(rec)[2],
                                 GetUserPrivateKey(uid, pw))
        ELSE IF UsesServerKem(rec) /\ ServerDecapsulated(rec) # NoKey
        THEN ServerDecapsulated(rec)
        ELSE stored_key

\* Lines 413-415, with the comparison off by one.
LimitReachedOffByOne(rec) ==
    Truthy(rec.max_downloads) /\ rec.download_count > rec.max_downloads
\* Lines 413-415: if max_downloads and download_count >= max_downloads.
LimitReached(rec) ==
    Truthy(rec.max_downloads) /\ rec.download_count >= rec.max_downloads

\* Lines 404-415 with the expiry looked at before is_active.
LifecycleRejectionExpiryFirst(rec) ==
    IF now > rec.expiry_time THEN MsgExpired
    ELSE IF ~rec.is_active THEN MsgDeactivated
    ELSE IF LimitReached(rec) THEN MsgLimit
    ELSE ""
\* Lines 404-415 without the comparison of the clock with expiry_time.
LifecycleRejectionNoExpiry(rec) ==
    IF ~rec.is_active THEN MsgDeactivated
    ELSE IF LimitReached(rec) THEN MsgLimit
    ELSE ""
\* Lines 404-415: deactivated, expired, exhausted, in that order.
LifecycleRejection(rec) ==
    IF ~rec.is_active THEN MsgDeactivated
    ELSE IF now > rec.expiry_time THEN MsgExpired
    ELSE IF LimitReached(rec) THEN MsgLimit
    ELSE ""

\* Lines 417-426 comparing the requester with the share's creator.
AccessRejectionAgainstOwner(rec, uid, pw) ==
    IF rec.share_type # "private" THEN ""
    ELSE IF uid = 0 THEN MsgAuthRequired
    ELSE IF uid # rec.user_id THEN MsgAccessDenied
    ELSE IF pw = 0 THEN MsgPwRequired
    ELSE ""
\* Lines 417-426: access control for private shares.
AccessRejection(rec, uid, pw) ==
    IF rec.share_type # "private" THEN ""
    ELSE IF uid = 0 THEN MsgAuthRequired
    ELSE IF uid # rec.target_user_id THEN MsgAccessDenied
    ELSE IF pw = 0 THEN MsgPwRequired
    ELSE ""

\* download_shared_file without the comparison of the token with the key
\* (lines 493-495).
DownloadOutcomeNoTokenCheck(rec, tok, uid, pw) ==
    IF LifecycleRejection(rec) # "" THEN LifecycleRejection(rec)
    ELSE IF AccessRejection(rec, uid, pw) # ""
         THEN AccessRejection(rec, uid, pw)
    ELSE IF ~B64Valid(tok) THEN MsgValidation
    ELSE IF UsesTargetKem(rec) /\ ~PqEnabled THEN MsgNoPq
    ELSE IF UsesTargetKem(rec) /\ GetUserPrivateKey(uid, pw) = NoKey
         THEN MsgBadPassword
    ELSE IF UsesTargetKem(rec) /\ Len(TargetParts(rec)) # 2 THEN MsgInvalidKem
    ELSE IF UsesTargetKem(rec) /\ ActualShareKey(rec, uid, pw) = NoKey
         THEN MsgDecapFailed
    ELSE IF AeadDecrypt(blobs[rec.encrypted_filename],
                        ActualShareKey(rec, uid, pw)) = NoData
         THEN MsgDecryptFailed
    ELSE ""
\* download_shared_file comparing the token with the key for private shares
\* too.
DownloadOutcomeTokenAlways(rec, tok, uid, pw) ==
    IF LifecycleRejection(rec) # "" THEN LifecycleRejection(rec)
    ELSE IF AccessRejection(rec, uid, pw) # ""
         THEN AccessRejection(rec, uid, pw)
    ELSE IF ~B64Valid(tok) THEN MsgValidation
    ELSE IF UsesTargetKem(rec) /\ ~PqEnabled THEN MsgNoPq
    ELSE IF UsesTargetKem(rec) /\ GetUserPrivateKey(uid, pw) = NoKey
         THEN MsgBadPassword
    ELSE IF UsesTargetKem(rec) /\ Len(TargetParts(rec)) # 2 THEN MsgInvalidKem
    ELSE IF UsesTargetKem(rec) /\ ActualShareKey(rec, uid, pw) = NoKey
         THEN MsgDecapFailed
    ELSE IF /\ B64Decode(tok) # B64Decode(rec.encryption_key)
            /\ B64Decode(tok) # ActualShareKey(rec, uid, pw)
         THEN MsgKeyMismatch
    ELSE IF AeadDecrypt(blobs[rec.encrypted_filename],
                        ActualShareKey(rec, uid, pw)) = NoData
         THEN MsgDecryptFailed
    ELSE ""
\* download_shared_file up to and including decrypt_data (lines 381-523),
\* on the record as read: the message of the rejection, "" when none.
DownloadOutcome(rec, tok, uid, pw) ==
    IF LifecycleRejection(rec) # "" THEN LifecycleRejection(rec)
    ELSE IF AccessRejection(rec, uid, pw) # ""
         THEN AccessRejection(rec, uid, pw)
    ELSE IF ~B64Valid(tok) THEN MsgValidation
    ELSE IF UsesTargetKem(rec) /\ ~PqEnabled THEN MsgNoPq
    ELSE IF UsesTargetKem(rec) /\ GetUserPrivateKey(uid, pw) = NoKey
         THEN MsgBadPassword
    ELSE IF UsesTargetKem(rec) /\ Len(TargetParts(rec)) # 2 THEN MsgInvalidKem
    ELSE IF UsesTargetKem(rec) /\ ActualShareKey(rec, uid, pw) = NoKey
         THEN MsgDecapFailed
    ELSE IF /\ rec.share_type # "private"
            /\ B64Decode(tok) # B64Decode(rec.encryption_key)
            /\ B64Decode(tok) # ActualShareKey(rec, uid, pw)
         THEN MsgKeyMismatch
    ELSE IF AeadDecrypt(blobs[rec.encrypted_filename],
                        ActualShareKey(rec, uid, pw)) = NoData
         THEN MsgDecryptFailed
    ELSE ""

\* A handler that fetches the requester's private key before it looks at
\* the record.
DownloadStepsKeyFirst(rec, tok, uid, pw) ==
    LET private == rec.share_type = "private"
        a == <<"get_user_private_key">> \o <<"is_active">>
        b == a \o <<"expiry_time">>
        c == b \o <<"max_downloads">>
        d == c \o <<"current_user_id">>
        e == d \o <<"target_user_id">>
        f == e \o <<"user_password">>
        g == (IF private THEN f ELSE c) \o <<"b64decode">>
        h == g \o <<"get_user_private_key">>
        i == h \o <<"split">>
        j == i \o <<"decapsulate_key">>
        k == g \o (IF ~UsesServerKem(rec) THEN <<>>
                   ELSE IF Len(SplitKemCiphertext(rec.kem_ciphertext)) # 2
                        THEN <<"split">>
                   ELSE IF GetServerPrivateKey(
                              IF rec.kem_key_id = "" THEN "default"
                              ELSE rec.kem_key_id) = NoKey
                        THEN <<"split", "get_server_private_key">>
                   ELSE <<"split", "get_server_private_key",
                          "decapsulate_key">>)
        l == k \o <<"token">>
    IN  IF ~rec.is_active THEN a
        ELSE IF now > rec.expiry_time THEN b
        ELSE IF LimitReached(rec) THEN c
        ELSE IF private /\ uid = 0 THEN d
        ELSE IF private /\ uid # rec.target_user_id THEN e
        ELSE IF private /\ pw = 0 THEN f
        ELSE IF ~B64Valid(tok) THEN g
        ELSE IF UsesTargetKem(rec)
        THEN IF ~PqEnabled THEN g
             ELSE IF GetUserPrivateKey(uid, pw) = NoKey THEN h
             ELSE IF Len(TargetParts(rec)) # 2 THEN i
             ELSE IF ActualShareKey(rec, uid, pw) = NoKey THEN j
             ELSE j \o <<"decrypt_data">>
        ELSE IF private THEN g \o <<"decrypt_data">>
        ELSE IF /\ B64Decode(tok) # B64Decode(rec.encryption_key)
                /\ B64Decode(tok) # ActualShareKey(rec, uid, pw)
        THEN l
        ELSE l \o <<"decrypt_data">>
\* download_shared_file, lines 404-523: the checks and the calls the handler
\* makes on the record as read, in the order it makes them, up to the one
\* that rejects the request or to decrypt_data.
DownloadSteps(rec, tok, uid, pw) ==
    LET private == rec.share_type = "private"
        a == <<"is_active">>
        b == a \o <<"expiry_time">>
        c == b \o <<"max_downloads">>
        d == c \o <<"current_user_id">>
        e == d \o <<"target_user_id">>
        f == e \o <<"user_password">>
        g == (IF private THEN f ELSE c) \o <<"b64decode">>
        h == g \o <<"get_user_private_key">>
        i == h \o <<"split">>
        j == i \o <<"decapsulate_key">>
        k == g \o (IF ~UsesServerKem(rec) THEN <<>>
                   ELSE IF Len(SplitKemCiphertext(rec.kem_ciphertext)) # 2
                        THEN <<"split">>
                   ELSE IF GetServerPrivateKey(
                              IF rec.kem_key_id = "" THEN "default"
                              ELSE rec.kem_key_id) = NoKey
                        THEN <<"split", "get_server_private_key">>
                   ELSE <<"split", "get_server_private_key",
                          "decapsulate_key">>)
        l == k \o <<"token">>
    IN  IF ~rec.is_active THEN a
        ELSE IF now > rec.expiry_time THEN b
        ELSE IF LimitReached(rec) THEN c
        ELSE IF private /\ uid = 0 THEN d
        ELSE IF private /\ uid # rec.target_user_id THEN e
        ELSE IF private /\ pw = 0 THEN f
        ELSE IF ~B64Valid(tok) THEN g
        ELSE IF UsesTargetKem(rec)
        THEN IF ~PqEnabled THEN g
             ELSE IF GetUserPrivateKey(uid, pw) = NoKey THEN h
             ELSE IF Len(TargetParts(rec)) # 2 THEN i
             ELSE IF ActualShareKey(rec, uid, pw) = NoKey THEN j
             ELSE j \o <<"decrypt_data">>
        ELSE IF private THEN g \o <<"decrypt_data">>
        ELSE IF /\ B64Decode(tok) # B64Decode(rec.encryption_key)
                /\ B64Decode(tok) # ActualShareKey(rec, uid, pw)
        THEN l
        ELSE l \o <<"decrypt_data">>

\* The step of the handler that returns each message (lines 404-523); ""
\* is the message of an accepted request.
RejectedBy ==
    [m \in {MsgDeactivated, MsgExpired, MsgLimit, MsgAuthRequired,
            MsgAccessDenied, MsgPwRequired, MsgValidation, MsgNoPq,
            MsgBadPassword, MsgInvalidKem, MsgDecapFailed, MsgKeyMismatch,
            MsgDecryptFailed, ""} |->
        CASE m = MsgDeactivated -> "is_active"
          [] m = MsgExpired -> "expiry_time"
          [] m = MsgLimit -> "max_downloads"
          [] m = MsgAuthRequired -> "current_user_id"
          [] m = MsgAccessDenied -> "target_user_id"
          [] m = MsgPwRequired -> "user_password"
          [] m \in {MsgValidation, MsgNoPq} -> "b64decode"
          [] m = MsgBadPassword -> "get_user_private_key"
          [] m = MsgInvalidKem -> "split"
          [] m = MsgDecapFailed -> "decapsulate_key"
          [] m = MsgKeyMismatch -> "token"
          [] OTHER -> "decrypt_data"]

TokenInputs == {B64Encode(k) : k \in 1..MaxShares} \cup {BadToken}
InFlight(sid) == Cardinality({p \in Procs : req[p].pc = "deliver" /\ req[p].sid = sid})

\* The request reads the record, validates and decrypts (one SELECT, no lock).
\* A new request takes the first free worker.
FreeWorker(p) ==
    /\ req[p].pc = "idle"
    /\ \A q \in Procs : q < p => req[q].pc # "idle"

\* A redemption that writes is_active = 0 when it finds the share expired
\* or exhausted.
DownloadBeginRetiresDeadShare(p, sid, tok, uid, pw) ==
    /\ FreeWorker(p)
    /\ IF sid \notin ShareIds
       THEN /\ last' = Ret("download", sid, uid, FALSE, MsgNotFound, NoData)
            /\ UNCHANGED <<req, shares>>
       ELSE LET rec == shares[sid]
                msg == DownloadOutcome(rec, tok, uid, pw)
            IN  IF msg # ""
                THEN /\ last' = Ret("download", sid, uid, FALSE, msg, NoData)
                     /\ shares' = IF msg \in {MsgExpired, MsgLimit}
                                  THEN [shares EXCEPT ![sid].is_active = FALSE]
                                  ELSE shares
                     /\ UNCHANGED req
                ELSE /\ rec.download_count + InFlight(sid) < MaxCount
                     /\ req' = [req EXCEPT ![p] =
                               [pc |-> "deliver", sid |-> sid, uid |-> uid,
                                pw |-> IF UsesTargetKem(rec) THEN pw ELSE 0,
                                key |-> ActualShareKey(rec, uid, pw),
                                payload |-> AeadDecrypt(
                                    blobs[rec.encrypted_filename],
                                    ActualShareKey(rec, uid, pw))]]
                     /\ last' = NoCall("download_begin")
                     /\ UNCHANGED shares
    /\ UNCHANGED <<kem, now, userKeys, serverKeys, blobs, delivered>>
DownloadBegin(p, sid, tok, uid, pw) ==
    /\ FreeWorker(p)
    /\ IF sid \notin ShareIds
       THEN /\ last' = Ret("download", sid, uid, FALSE, MsgNotFound, NoData)
            /\ UNCHANGED req
       ELSE LET rec == shares[sid]
                msg == DownloadOutcome(rec, tok, uid, pw)
            IN  IF msg # ""
                THEN /\ last' = Ret("download", sid, uid, FALSE, msg, NoData)
                     /\ UNCHANGED req
                ELSE /\ rec.download_count + InFlight(sid) < MaxCount
                     /\ req' = [req EXCEPT ![p] =
                               [pc |-> "deliver", sid |-> sid, uid |-> uid,
                                pw |-> IF UsesTargetKem(rec) THEN pw ELSE 0,
                                key |-> ActualShareKey(rec, uid, pw),
                                payload |-> AeadDecrypt(
                                    blobs[rec.encrypted_filename],
                                    ActualShareKey(rec, uid, pw))]]
                     /\ last' = NoCall("download_begin")
    /\ UNCHANGED <<kem, now, userKeys, serverKeys, shares, blobs,
                   delivered>>

\* An UPDATE that adds two.
IncrementDownloadCountTwice(sid) ==
    [shares EXCEPT ![sid].download_count = @ + 2]
\* The UPDATE without its WHERE share_id = ? condition.
IncrementDownloadCountAll(sid) ==
    [i \in ShareIds |-> [shares[i] EXCEPT !.download_count = @ + 1]]
\* A count written back from the value the request read: the write of a
\* request that finishes while another is in flight on the share is lost.
IncrementDownloadCountLostUpdate(sid) ==
    IF InFlight(sid) > 1 THEN shares
    ELSE [shares EXCEPT ![sid].download_count = @ + 1]
\* _increment_download_count (UPDATE ... download_count + 1) and the return
\* of the decrypted payload.
IncrementDownloadCount(sid) ==
    [shares EXCEPT ![sid].download_count = @ + 1]

DownloadFinish(p) ==
    /\ req[p].pc = "deliver"
    /\ shares' = IncrementDownloadCount(req[p].sid)
    /\ delivered' = [delivered EXCEPT ![req[p].sid] = @ + 1]
    /\ last' = Ret("download", req[p].sid, req[p].uid, TRUE, "",
                   req[p].payload)
    /\ req' = [req EXCEPT ![p] = IdleReq]
    /\ UNCHANGED <<kem, now, userKeys, serverKeys, blobs>>

\* ------------------------------------------------------------ deactivation
\* _deactivate_share: UPDATE shares SET is_active = 0 WHERE share_id = ? AND
\* user_id = ?; success is rowcount > 0.
\* The UPDATE without its user_id condition.
DeactivateMatchesAnyUser(sid, user_id) ==
    {i \in ShareIds : shares[i].share_id = sid}
DeactivateMatches(sid, user_id) ==
    {i \in ShareIds : shares[i].share_id = sid /\ shares[i].user_id = user_id}

\* An UPDATE that flips is_active instead of clearing it.
DeactivateShareFlips(sid, user_id) ==
    /\ shares' = [i \in ShareIds |->
                    IF i \in DeactivateMatches(sid, user_id)
                    THEN [shares[i] EXCEPT !.is_active = ~@]
                    ELSE shares[i]]
    /\ last' = Ret("deactivate", sid, user_id,
                   DeactivateMatches(sid, user_id) # {}, "", NoData)
    /\ UNCHANGED <<kem, now, userKeys, serverKeys, blobs, req,
                   delivered>>
DeactivateShare(sid, user_id) ==
    /\ shares' = [i \in ShareIds |->
                    IF i \in DeactivateMatches(sid, user_id)
                    THEN [shares[i] EXCEPT !.is_active = FALSE]
                    ELSE shares[i]]
    /\ last' = Ret("deactivate", sid, user_id,
                   DeactivateMatches(sid, user_id) # {}, "", NoData)
    /\ UNCHANGED <<kem, now, userKeys, serverKeys, blobs, req,
                   delivered>>

\* The application has started (create_app ran ensure_server_key when a
\* provider was loaded); the users who uploaded a file have logged in, so
\* ensure_user_keys ran for them; nothing is shared yet.
Uploaders == {FileOwner(f) : f \in Files}
Init ==
    /\ kem \in KemProviders
    /\ now = 0
    /\ userKeys = [u \in Users |->
                     IF PqEnabled /\ u \in Uploaders
                     THEN [pub |-> UserKeypair(u),
                           priv |-> EncryptPrivateKey(UserKeypair(u), Password(u))]
                     ELSE NoUserKeys]
    /\ serverKeys = IF PqEnabled
                    THEN <<ServerKeyRow("default", ServerKeypair, 0)>>
                    ELSE <<>>
    /\ shares = <<>>
    /\ blobs = <<>>
    /\ req = [p \in Procs |-> IdleReq]
    /\ delivered = <<>>
    /\ last = NoCall("init")

\* No request is between its read of the record and its increment.
AllIdle == \A p \in Procs : req[p].pc = "idle"

\* Requests are served one at a time (a single synchronous worker).
Next ==
    \/ AllIdle /\ Tick
    \/ AllIdle /\ \E u \in UserIdInputs : EnsureUserKeys(u, Password(u))
    \/ AllIdle /\ EnsureServerKey("default", DefaultRotationDays)
    \/ AllIdle /\ RotateServerKey("default")
    \/ AllIdle /\ \E f \in FileInputs, u \in Users, h \in ExpiryHoursInputs,
          m \in MaxDownloadsInputs, t \in ShareTypes, g \in TargetInputs :
            CreateShare(f, u, h, m, t, g)
    \/ AllIdle /\ \E p \in Procs, sid \in 0..Len(shares), tok \in TokenInputs,
          u \in Requesters, pw \in PasswordInputs :
            DownloadBegin(p, sid, tok, u, pw)
    \/ \E p \in Procs : DownloadFinish(p)
    \/ AllIdle /\ \E sid \in 0..Len(shares), u \in Users :
            DeactivateShare(sid, u)

Spec == Init /\ [][Next]_vars

\* Requests are served by concurrent workers (threads or processes over the
\* same SQLite file): a request may run between another request's read of
\* the share record and its increment of download_count.  The race window is
\* short against the clock's hours: the clock is held.
NextConc ==
    \/ \E u \in UserIdInputs : EnsureUserKeys(u, Password(u))
    \/ EnsureServerKey("default", DefaultRotationDays)
    \/ RotateServerKey("default")
    \/ \E f \in FileInputs, u \in Users, h \in ExpiryHoursInputs,
          m \in MaxDownloadsInputs, t \in ShareTypes, g \in TargetInputs :
            CreateShare(f, u, h, m, t, g)
    \/ \E p \in Procs, sid \in 0..Len(shares), tok \in TokenInputs,
          u \in Requesters, pw \in PasswordInputs :
            DownloadBegin(p, sid, tok, u, pw)
    \/ \E p \in Procs : DownloadFinish(p)
    \/ \E sid \in 0..Len(shares), u \in Users : DeactivateShare(sid, u)

SpecConc == Init /\ [][NextConc]_vars

\* --------------------------------------------------------------- two shares
\* The owner of the file has created two public shares of it, each with its
\* own share key, blob and download limit; requests on either are served by
\* concurrent workers, anonymous or logged in.
PairIds == {1, 2}
PairLimitInputs == {NoLimit, 1}
\* Nobody is logged in, or the owner is.
PairRequesters == {0} \cup Uploaders
PairTokenInputs == {B64Encode(ShareKey(sid)) : sid \in PairIds} \cup {BadToken}
InitPair ==
    /\ kem \in KemProviders
    /\ now = 0
    /\ userKeys = [u \in Users |->
                     IF PqEnabled /\ u \in Uploaders
                     THEN [pub |-> UserKeypair(u),
                           priv |-> EncryptPrivateKey(UserKeypair(u), Password(u))]
                     ELSE NoUserKeys]
    /\ serverKeys = IF PqEnabled
                    THEN <<ServerKeyRow("default", ServerKeypair, 0)>>
                    ELSE <<>>
    /\ \E f \in Files, h \in ExpiryHoursInputs :
          /\ blobs = [sid \in PairIds |->
                         AeadEncrypt(ShareKey(sid), FileData(f))]
          /\ \E limit \in [PairIds -> PairLimitInputs] :
                shares = [sid \in PairIds |->
                             NewShareRecord(sid, FileOwner(f), h, limit[sid],
                                            "public", 0, CleanCoins)]
    /\ req = [p \in Procs |-> IdleReq]
    /\ delivered = [sid \in PairIds |-> 0]
    /\ last = NoCall("init")

NextPair ==
    \/ \E p \in Procs, sid \in 0..Len(shares), tok \in PairTokenInputs,
          u \in PairRequesters :
            DownloadBegin(p, sid, tok, u, 0)
    \/ \E p \in Procs : DownloadFinish(p)
    \/ \E sid \in 0..Len(shares), u \in Users : DeactivateShare(sid, u)

SpecPair == InitPair /\ [][NextPair]_vars

\* ------------------------------------------------------------ key lifecycle
\* The application starts on an empty key store: no user has logged in since
\* the provider was configured, and server_kem_keys is empty until
\* ensure_server_key runs (create_app skips it when PQ_ENABLE_SHARE_LINKS is
\* off).  Logins are served by concurrent workers, so ensure_user_keys is
\* followed in its two database calls: the SELECT of the user's keys and the
\* UPDATE that stores the generated ones.

\* ensure_user_keys up to its decision to generate (lines 28-34).
EnsureUserKeysRead(p, u, pw) ==
    /\ FreeWorker(p)
    /\ IF ~PqEnabled
       THEN /\ last' = Ret("ensure_user_keys", 0, u, FALSE, "", NoData)
            /\ UNCHANGED req
       ELSE IF u \in Users /\ userKeys[u].pub # NoKey
       THEN /\ last' = Ret("ensure_user_keys", 0, u, TRUE, "", NoData)
            /\ UNCHANGED req
       ELSE /\ req' = [req EXCEPT ![p] =
                         [pc |-> "generate", sid |-> 0, uid |-> u, pw |-> pw,
                          key |-> NoKey, payload |-> NoData]]
            /\ last' = NoCall("ensure_user_keys_read")
    /\ UNCHANGED <<kem, now, userKeys, serverKeys, shares, blobs, delivered>>

\* ensure_user_keys from generate_keypair to its return (lines 36-54).
EnsureUserKeysWrite(p) ==
    /\ req[p].pc = "generate"
    /\ userKeys' = UpdateUserPqKeys(req[p].uid, FreshUserKeypair(req[p].uid),
                        EncryptPrivateKey(FreshUserKeypair(req[p].uid),
                                          req[p].pw))
    /\ last' = Ret("ensure_user_keys", 0, req[p].uid, TRUE, "", NoData)
    /\ req' = [req EXCEPT ![p] = IdleReq]
    /\ UNCHANGED <<kem, now, serverKeys, shares, blobs, delivered>>

InitKeys ==
    /\ kem \in KemProviders
    /\ now = 0
    /\ userKeys = [u \in Users |-> NoUserKeys]
    /\ serverKeys = <<>>
    /\ shares = <<>>
    /\ blobs = <<>>
    /\ req = [p \in Procs |-> IdleReq]
    /\ delivered = <<>>
    /\ last = NoCall("init")

\* Shares are created without a download limit and redeemed with the link's
\* token by the logged-in users with their own password.  The races are
\* short against the clock's hours: the clock is held.
NextKeys ==
    \/ EnsureServerKey("default", DefaultRotationDays)
    \/ \E p \in Procs, u \in Users : EnsureUserKeysRead(p, u, Password(u))
    \/ \E p \in Procs : EnsureUserKeysWrite(p)
    \/ \E f \in Files, h \in ExpiryHoursInputs, t \in ShareTypes,
          g \in TargetInputs :
            CreateShare(f, FileOwner(f), h, NoLimit, t, g)
    \/ \E p \in Procs, sid \in ShareIds, u \in Users :
            DownloadBegin(p, sid, B64Encode(ShareKey(sid)), u, Password(u))
    \/ \E p \in Procs : DownloadFinish(p)

SpecKeys == InitKeys /\ [][NextKeys]_vars

\* Start-ups over time: the application is started again and again, under
\* either rotation window, while the clock advances and users log in.
NextStartup ==
    \/ Tick
    \/ \E d \in RotationDaysInputs : EnsureServerKey("default", d)
    \/ RotateServerKey("default")
    \/ \E u \in UserIdInputs : EnsureUserKeys(u, Password(u))

SpecStartup == InitKeys /\ [][NextStartup]_vars

\* ------------------------------------------------- functions called alone
\* The functions below the share lifecycle, called one at a time as the unit
\* tests call them: the envelope of encrypt_data / decrypt_data over a file
\* of the upload folder, the provider loader, and the custody calls over a
\* database that may fail to answer.

\* b'': the empty plaintext, which is not None.
EmptyData == -1
PlaintextInputs == {EmptyData} \cup {FileData(f) : f \in Files}
KeyInputs == SymmetricKeys \cup {ShareKey(MaxShares + 1)}

\* encrypt_data: nonce (12 bytes) + auth_tag (16 bytes) + ciphertext.  Each
\* part of the stored envelope is as written, has a bit flipped, or (nonce
\* and tag) is cut short.
EncryptData(data, key) ==
    [gcm |-> AeadEncrypt(key, data), nonce |-> "intact", tag |-> "intact",
     ct |-> "intact"]

\* What a file of the upload folder holds when it is read back: what was
\* written, or that with one part changed.
EnvelopeParts == {"nonce", "tag", "ct"}
TamperKinds ==
    {<<part, "flipped">> : part \in EnvelopeParts}
        \cup {<<"nonce", "short">>, <<"tag", "short">>}
Tampered(env, kind) ==
    IF kind[1] = "nonce" THEN [env EXCEPT !.nonce = kind[2]]
    ELSE IF kind[1] = "tag" THEN [env EXCEPT !.tag = kind[2]]
    ELSE [env EXCEPT !.ct = kind[2]]

\* decrypt_data returning whatever update() produced, without finalize().
DecryptDataUnauthenticated(env, key) ==
    IF env.nonce = "short" \/ env.tag = "short" THEN NoData
    ELSE AeadDecrypt(env.gcm, key)
\* decrypt_data testing the plaintext's truth value instead of `is None`.
DecryptDataEmptyIsNone(env, key) ==
    IF env.nonce # "intact" \/ env.tag # "intact" \/ env.ct # "intact"
    THEN NoData
    ELSE IF AeadDecrypt(env.gcm, key) = EmptyData THEN NoData
    ELSE AeadDecrypt(env.gcm, key)
\* decrypt_data: modes.GCM raises ValueError for a nonce under 8 bytes or a
\* tag under 16; finalize() raises InvalidTag when nonce, tag, ciphertext
\* and key do not belong together; every exception is caught and None
\* returned.
DecryptData(env, key) ==
    IF env.nonce = "short" \/ env.tag = "short" THEN NoData
    ELSE IF env.nonce # "intact" \/ env.tag # "intact" \/ env.ct # "intact"
    THEN NoData
    ELSE AeadDecrypt(env.gcm, key)

EncryptDataCall(data, key) ==
    /\ blobs' = <<EncryptData(data, key)>>
    /\ last' = Ret("encrypt_data", 0, 0, TRUE, "", NoData)
    /\ UNCHANGED <<kem, now, userKeys, serverKeys, shares, req, delivered>>

TamperFile(kind) ==
    /\ blobs # <<>>
    /\ blobs[1] = EncryptData(blobs[1].gcm.p, blobs[1].gcm.k)
    /\ blobs' = <<Tampered(blobs[1], kind)>>
    /\ last' = NoCall("tamper")
    /\ UNCHANGED <<kem, now, userKeys, serverKeys, shares, req, delivered>>

DecryptDataCall(key) ==
    /\ blobs # <<>>
    /\ last' = Ret("decrypt_data", 0, 0, DecryptData(blobs[1], key) # NoData,
                   "", DecryptData(blobs[1], key))
    /\ UNCHANGED <<kem, now, userKeys, serverKeys, shares, blobs, req,
                   delivered>>

\* str.lower() on the provider name.
Lower(name) ==
    IF name = "Kyber" THEN "kyber"
    ELSE IF name = "Mock" THEN "mock"
    ELSE name
\* "none" is not a name the loader knows.
ProviderInputs == {"kyber", "Kyber", "mock", "none"}
AlgorithmInputs == {"Kyber768", "Kyber2048"}
\* KyberKEM.__init__ / is_available: kyber_py imports and the algorithm is
\* one of the three ML-KEM parameter sets.
KyberIsAvailable(algorithm, installed) ==
    installed /\ algorithm \in {"Kyber512", "Kyber768", "Kyber1024"}
\* A loader that returns the Kyber provider without asking is_available().
LoadKemProviderUnchecked(provider, algorithm, installed, allow_fallback) ==
    IF Lower(provider) = "kyber" THEN "kyber"
    ELSE IF Lower(provider) = "mock" THEN "mock"
    ELSE IF allow_fallback THEN "mock"
    ELSE "none"
\* load_kem_provider: the provider returned ("none" is None).
LoadKemProvider(provider, algorithm, installed, allow_fallback) ==
    IF Lower(provider) = "kyber"
    THEN IF KyberIsAvailable(algorithm, installed) THEN "kyber"
         ELSE IF allow_fallback THEN "mock"
         ELSE "none"
    ELSE IF Lower(provider) = "mock" THEN "mock"
    ELSE IF allow_fallback THEN "mock"
    ELSE "none"

\* load_kem_provider called under a configuration, over the database as it
\* is; what it returns is the provider in use from then on.
LoadKemProviderCall(provider, algorithm, installed, allow_fallback) ==
    /\ kem' = LoadKemProvider(provider, algorithm, installed, allow_fallback)
    /\ last' = Ret("load_kem_provider", 0, 0,
                   LoadKemProvider(provider, algorithm, installed,
                                   allow_fallback) # "none", "", NoData)
    /\ UNCHANGED <<now, userKeys, serverKeys, shares, blobs, req, delivered>>

\* sqlite3 raising OperationalError (database is locked, disk I/O error) in
\* a call that is not inside a try block.
MsgOperationalError == "raised sqlite3.OperationalError"
Raised(op, uid) == Ret(op, 0, uid, FALSE, MsgOperationalError, NoData)
CustodyCalls == {"ensure_user_keys", "get_user_private_key",
                 "ensure_server_key", "get_server_private_key",
                 "rotate_server_key"}

\* ensure_user_keys: get_user_pq_keys (line 32) is called before the try.
EnsureUserKeysDb(u, pw, dbError) ==
    IF PqEnabled /\ dbError
    THEN /\ last' = Raised("ensure_user_keys", u)
         /\ UNCHANGED <<kem, now, userKeys, serverKeys, shares, blobs, req,
                        delivered>>
    ELSE EnsureUserKeys(u, pw)

\* get_user_private_key: get_user_pq_keys (line 74) is called before the try.
GetUserPrivateKeyCall(u, pw, dbError) ==
    /\ last' = IF PqEnabled /\ dbError
               THEN Raised("get_user_private_key", u)
               ELSE Ret("get_user_private_key", 0, u,
                        GetUserPrivateKey(u, pw) # NoKey, "",
                        GetUserPrivateKey(u, pw))
    /\ UNCHANGED <<kem, now, userKeys, serverKeys, shares, blobs, req,
                   delivered>>

\* ensure_server_key: check_key_rotation_needed (line 103) is called before
\* the try.
EnsureServerKeyDb(key_id, dbError) ==
    IF PqEnabled /\ dbError
    THEN /\ last' = Raised("ensure_server_key", 0)
         /\ UNCHANGED <<kem, now, userKeys, serverKeys, shares, blobs, req,
                        delivered>>
    ELSE EnsureServerKey(key_id, DefaultRotationDays)

\* get_server_private_key: get_active_server_key (line 145) is called before
\* the try.
GetServerPrivateKeyCall(key_id, dbError) ==
    /\ last' = IF PqEnabled /\ dbError
               THEN Raised("get_server_private_key", 0)
               ELSE Ret("get_server_private_key", 0, 0,
                        GetServerPrivateKey(key_id) # NoKey, "",
                        GetServerPrivateKey(key_id))
    /\ UNCHANGED <<kem, now, userKeys, serverKeys, shares, blobs, req,
                   delivered>>

NextUnit ==
    \/ \E data \in PlaintextInputs, key \in KeyInputs :
            EncryptDataCall(data, key)
    \/ \E kind \in TamperKinds : TamperFile(kind)
    \/ \E key \in KeyInputs : DecryptDataCall(key)
    \/ \E provider \in ProviderInputs, algorithm \in AlgorithmInputs,
          installed \in BOOLEAN, allow_fallback \in BOOLEAN :
            LoadKemProviderCall(provider, algorithm, installed,
                                allow_fallback)
    \/ \E u \in UserIdInputs, dbError \in BOOLEAN :
            EnsureUserKeysDb(u, Password(u), dbError)
    \/ \E u \in UserIdInputs, pw \in PasswordInputs, dbError \in BOOLEAN :
            GetUserPrivateKeyCall(u, pw, dbError)
    \/ \E dbError \in BOOLEAN : EnsureServerKeyDb("default", dbError)
    \/ \E dbError \in BOOLEAN : GetServerPrivateKeyCall("default", dbError)
    \/ RotateServerKey("default")

SpecUnit == Init /\ [][NextUnit]_vars

\* ------------------------------------------------------------------ claims
\* C1: a share with max_downloads = 1 delivers its payload at most once,
\* however the concurrent redemptions' reads, limit checks and increments
\* interleave: of N >= 2 requests one succeeds and the others are rejected.
C1_ExactlyOneDelivery ==
    \A sid \in ShareIds :
        shares[sid].max_downloads = 1 => delivered[sid] <= 1

\* C2: on an active, unexpired share with max_downloads = m >= 1, served one
\* request at a time, a redemption with the correct key is accepted while
\* download_count < m, each delivery adds one to download_count and never
\* takes it past m, and once download_count = m every redemption is rejected
\* with 'Download limit reached'.  The correct key is the link token and, for
\* a private share, the target's identity and password (Kyber provider, a
\* stored column that splits into the two parts that were joined).
C2_SequentialLimit ==
    [][\A sid \in ShareIds :
          LET rec == shares[sid]
              m == rec.max_downloads
          IN  (/\ last'.op \in {"download", "download_begin"}
               /\ rec.is_active
               /\ now <= rec.expiry_time
               /\ m >= 1)
              =>
              /\ \A p \in Procs, tok \in TokenInputs, u \in Requesters,
                    pw \in PasswordInputs :
                    DownloadBegin(p, sid, tok, u, pw) =>
                        /\ rec.download_count >= m =>
                              ~last'.ok /\ last'.msg = MsgLimit /\ req' = req
                        /\ (/\ rec.download_count < m
                            /\ tok = B64Encode(ShareKey(sid))
                            /\ rec.share_type = "private" =>
                                  /\ kem = "kyber"
                                  /\ u = rec.target_user_id
                                  /\ pw = Password(u)
                                  /\ TargetColumnSplits(rec))
                           => /\ req'[p].pc = "deliver"
                              /\ req'[p].payload # NoData
                              /\ req'[p].payload =
                                     blobs[rec.encrypted_filename].p
              /\ \A p \in Procs :
                    (DownloadFinish(p) /\ req[p].sid = sid) =>
                        /\ last'.ok
                        /\ last'.payload = blobs[rec.encrypted_filename].p
                        /\ shares'[sid].download_count = rec.download_count + 1
                        /\ shares'[sid].download_count <= m
                        /\ delivered'[sid] = shares'[sid].download_count
    ]_vars

\* A share with a limit has been redeemed up to its limit and the redemption
\* just made was rejected as exhausted.
C2_Witness ==
    \E sid \in ShareIds :
        /\ shares[sid].max_downloads >= 1
        /\ shares[sid].is_active
        /\ now <= shares[sid].expiry_time
        /\ shares[sid].download_count = shares[sid].max_downloads
        /\ delivered[sid] = shares[sid].max_downloads
        /\ last.op = "download" /\ last.sid = sid
        /\ ~last.ok /\ last.msg = MsgLimit

\* C3: a redemption of a private share by a requester other than the
\* record's target_user_id (user 0 is the unauthenticated requester) is
\* rejected before the password or the token is looked at, whatever they are,
\* and no request that delivers a private share's payload is such a
\* requester's.
C3_PrivateAccessControl ==
    [][\A sid \in ShareIds :
          LET rec == shares[sid]
          IN  rec.share_type = "private" =>
              /\ last'.op \in {"download", "download_begin"} =>
                    \A p \in Procs, tok \in TokenInputs, u \in Requesters,
                       pw \in PasswordInputs :
                        (u # rec.target_user_id
                         /\ DownloadBegin(p, sid, tok, u, pw)) =>
                            /\ ~last'.ok
                            /\ last'.payload = NoData
                            /\ last'.msg \in {MsgDeactivated, MsgExpired,
                                   MsgLimit, MsgAuthRequired, MsgAccessDenied}
                            /\ req' = req
              /\ \A p \in Procs :
                    (DownloadFinish(p) /\ req[p].sid = sid) =>
                        /\ req[p].uid = rec.target_user_id
                        /\ last'.uid = rec.target_user_id
    ]_vars

\* An authenticated user who is not the target has just been refused a
\* live private share.
C3_Witness ==
    /\ last.op = "download"
    /\ last.sid \in ShareIds
    /\ shares[last.sid].share_type = "private"
    /\ last.uid \in Users
    /\ last.uid # shares[last.sid].target_user_id
    /\ ~last.ok
    /\ last.msg = MsgAccessDenied

\* C4: every request that is about to deliver a private share's payload is
\* the target's, was made with the password the target's stored private key
\* is encrypted under, and holds the share key that this private key
\* decapsulates from the record's target_kem_ciphertext; the link alone does
\* not get there.
C4_TargetUnwraps ==
    \A p \in Procs :
        (req[p].pc = "deliver"
         /\ shares[req[p].sid].share_type = "private") =>
            LET rec == shares[req[p].sid]
                u == req[p].uid
                sk == GetUserPrivateKey(u, req[p].pw)
            IN  /\ u = rec.target_user_id
                /\ u \in Users
                /\ userKeys[u].priv # NoPrivBlob
                /\ userKeys[u].priv.pw = req[p].pw
                /\ sk # NoKey
                /\ sk = userKeys[u].priv.sk
                /\ UsesTargetKem(rec)
                /\ req[p].key = DecapsulateKey(rec.target_kem_ciphertext.ct,
                                               rec.target_kem_ciphertext.w, sk)
                /\ req[p].key = blobs[rec.encrypted_filename].k
                /\ req[p].payload = blobs[rec.encrypted_filename].p

\* The target, who is not the creator, has unwrapped a private share and is
\* about to receive it.
C4_Witness ==
    \E p \in Procs :
        /\ req[p].pc = "deliver"
        /\ shares[req[p].sid].share_type = "private"
        /\ shares[req[p].sid].target_user_id # shares[req[p].sid].user_id
        /\ req[p].uid = shares[req[p].sid].target_user_id

\* C5: an inactive share stays inactive in every step, a successful
\* deactivate_share leaves the share inactive, and every redemption that
\* begins on an inactive share is rejected with 'Share has been deactivated'
\* whatever its key, the clock and the download count.
C5_DeactivationTerminal ==
    [][/\ \A sid \in ShareIds :
             ~shares[sid].is_active =>
                /\ ~shares'[sid].is_active
                /\ last'.op \in {"download", "download_begin"} =>
                      \A p \in Procs, tok \in TokenInputs, u \in Requesters,
                         pw \in PasswordInputs :
                          DownloadBegin(p, sid, tok, u, pw) =>
                              /\ ~last'.ok
                              /\ last'.msg = MsgDeactivated
                              /\ req' = req
       /\ (last'.op = "deactivate" /\ last'.ok) =>
             /\ last'.sid \in ShareIds
             /\ ~shares'[last'.sid].is_active
    ]_vars

\* A deactivated share that is also past its expiry has just refused a
\* redemption as deactivated.
C5_Witness ==
    /\ last.op = "download"
    /\ last.sid \in ShareIds
    /\ ~shares[last.sid].is_active
    /\ now > shares[last.sid].expiry_time
    /\ last.msg = MsgDeactivated

\* C6: deactivate_share(share_id, user_id) by the share's owner returns True
\* and clears is_active of that share only; by any other user, or for an
\* unknown share_id, it returns False and leaves every share record as it
\* was; and no step clears is_active but the owner's deactivate_share.
C6_OwnerOnlyDeactivation ==
    [][/\ last'.op = "deactivate" =>
             \A sid \in 0..Len(shares), u \in Users :
                 DeactivateShare(sid, u) =>
                     IF sid \in ShareIds /\ shares[sid].user_id = u
                     THEN /\ last'.ok
                          /\ shares' = [shares EXCEPT ![sid].is_active = FALSE]
                     ELSE /\ ~last'.ok
                          /\ shares' = shares
       /\ \A sid \in ShareIds :
             shares'[sid].is_active # shares[sid].is_active =>
                 /\ last'.op = "deactivate"
                 /\ last'.sid = sid
                 /\ last'.uid = shares[sid].user_id
    ]_vars

\* A user who is not the owner has just called deactivate_share on a live
\* share: it returned False and the share is still active.
C6_Witness ==
    /\ last.op = "deactivate"
    /\ last.sid \in ShareIds
    /\ last.uid # shares[last.sid].user_id
    /\ ~last.ok
    /\ shares[last.sid].is_active

\* C7: no stored share record holds the share key in the clear: the
\* encryption_key column does not decode (base64) to the key the share's
\* blob is encrypted under.
C7_ShareKeyNotStored ==
    \A sid \in ShareIds :
        B64Decode(shares[sid].encryption_key)
            # blobs[shares[sid].encrypted_filename].k

\* C8: in every stored share record target_user_id is set exactly for
\* private shares, a public share has kem_ciphertext, kem_algorithm and
\* kem_key_id and no target fields, and a private share has target_user_id,
\* target_kem_ciphertext and target_kem_algorithm and no server KEM fields.
C8_KeyMaterialGroups ==
    \A sid \in ShareIds :
        LET rec == shares[sid]
            publicSet == /\ rec.kem_ciphertext # NoKemCt
                         /\ rec.kem_algorithm # NoAlgorithm
                         /\ rec.kem_key_id # ""
            publicEmpty == /\ rec.kem_ciphertext = NoKemCt
                           /\ rec.kem_algorithm = NoAlgorithm
                           /\ rec.kem_key_id = ""
            privateSet == /\ rec.target_user_id # 0
                          /\ rec.target_kem_ciphertext # NoKemCt
                          /\ rec.target_kem_algorithm # NoAlgorithm
            privateEmpty == /\ rec.target_user_id = 0
                            /\ rec.target_kem_ciphertext = NoKemCt
                            /\ rec.target_kem_algorithm = NoAlgorithm
        IN  /\ rec.target_user_id # 0 <=> rec.share_type = "private"
            /\ rec.share_type = "public" => publicSet /\ privateEmpty
            /\ rec.share_type = "private" => privateSet /\ publicEmpty

\* C9: creating a private share with no target, with no KEM provider, or
\* for a target who has no public KEM key returns an error result and writes
\* neither a share record nor a share blob.
C9_PrivateCreateRejected ==
    [][last'.op = "create" =>
          \A f \in FileInputs, u \in Users, h \in ExpiryHoursInputs,
             m \in MaxDownloadsInputs, g \in TargetInputs :
              (/\ g = 0 \/ ~PqEnabled \/ GetUserPublicKey(g) = NoKey
               /\ CreateShare(f, u, h, m, "private", g))
              => /\ ~last'.ok
                 /\ last'.msg \in {MsgNoFile, MsgNoTarget, MsgNoKem,
                                   MsgNoTargetKey}
                 /\ shares' = shares
                 /\ blobs' = blobs
    ]_vars

\* The owner of the file has just been refused a private share for a target
\* who has no keys, with a provider loaded; nothing is stored.
C9_Witness ==
    /\ last.op = "create"
    /\ PqEnabled
    /\ ~last.ok
    /\ last.msg = MsgNoTargetKey
    /\ shares = <<>>
    /\ blobs = <<>>

\* C10: creating a private share of a file the creator owns, for a target
\* who has a public KEM key, with a provider loaded, returns success and
\* stores exactly one new record, of type private, for that target, whose
\* share key is wrapped under the target's public key.
C10_PrivateCreateSucceeds ==
    [][last'.op = "create" =>
          \A f \in FileInputs, u \in Users, h \in ExpiryHoursInputs,
             m \in MaxDownloadsInputs, g \in TargetInputs :
              (/\ f \in Files /\ FileOwner(f) = u
               /\ PqEnabled
               /\ GetUserPublicKey(g) # NoKey
               /\ CreateShare(f, u, h, m, "private", g))
              => /\ last'.ok
                 /\ Len(shares') = Len(shares) + 1
                 /\ shares'[Len(shares')].share_type = "private"
                 /\ shares'[Len(shares')].target_user_id = g
                 /\ \E coins \in CoinInputs :
                       shares'[Len(shares')].target_kem_ciphertext =
                          EncapsulateKey(ShareKey(Len(shares')),
                                         GetUserPublicKey(g),
                                         Coins(Len(shares'), coins[1],
                                               coins[2]))
    ]_vars

\* C11: expiry is decided from the clock when the redemption is evaluated.
\* A redemption evaluated after expiry_time is never accepted, and is
\* rejected with 'Share has expired' when the share is active; expiry_time
\* never changes and the clock never goes back, so it stays rejected.  A
\* redemption of an active, non-exhausted share evaluated before expiry_time
\* with the correct key (the link token and, for a private share, the
\* target's identity and password under Kyber, with a stored column that
\* splits into the two parts that were joined) is accepted.
C11_ExpiryAtRedemption ==
    [][/\ now' >= now
       /\ \A sid \in ShareIds :
             LET rec == shares[sid]
             IN  /\ shares'[sid].expiry_time = rec.expiry_time
                 /\ (last'.op = "download" /\ last'.sid = sid
                     /\ now > rec.expiry_time /\ AllIdle) =>
                        /\ ~last'.ok
                        /\ req' = req
                        /\ rec.is_active => last'.msg = MsgExpired
                 /\ \A p \in Procs :
                        (req'[p].pc = "deliver" /\ req[p].pc = "idle"
                         /\ req'[p].sid = sid) => now <= rec.expiry_time
                 /\ (/\ last'.op \in {"download", "download_begin"}
                     /\ now < rec.expiry_time
                     /\ rec.is_active
                     /\ ~(Truthy(rec.max_downloads)
                          /\ rec.download_count >= rec.max_downloads)) =>
                        \A p \in Procs, u \in Requesters,
                           pw \in PasswordInputs :
                            (/\ rec.share_type = "private" =>
                                   /\ kem = "kyber"
                                   /\ u = rec.target_user_id
                                   /\ pw = Password(u)
                                   /\ TargetColumnSplits(rec)
                             /\ DownloadBegin(p, sid, B64Encode(ShareKey(sid)),
                                              u, pw))
                            => /\ req'[p].pc = "deliver"
                               /\ req'[p].payload =
                                      blobs[rec.encrypted_filename].p
    ]_vars

\* An active share that is past its expiry and has downloads left has just
\* refused a redemption as expired.
C11_Witness ==
    /\ last.op = "download"
    /\ last.sid \in ShareIds
    /\ shares[last.sid].is_active
    /\ now > shares[last.sid].expiry_time
    /\ shares[last.sid].download_count = 0
    /\ ~last.ok
    /\ last.msg = MsgExpired

\* C12: a redemption of an active share evaluated at exactly
\* now = expiry_time is treated as expired: it is rejected with
\* 'Share has expired' and nothing is delivered.
C12_BoundaryIsExpired ==
    [][\A sid \in ShareIds :
          LET rec == shares[sid]
          IN  (/\ last'.op \in {"download", "download_begin"}
               /\ rec.is_active
               /\ now = rec.expiry_time)
              => \A p \in Procs, tok \in TokenInputs, u \in Requesters,
                    pw \in PasswordInputs :
                     DownloadBegin(p, sid, tok, u, pw) =>
                         /\ ~last'.ok
                         /\ last'.msg = MsgExpired
                         /\ req' = req
    ]_vars

C14_RotationReplacesKey ==
    [][(/\ last'.op = "rotate_server_key"
        /\ PqEnabled
        /\ GetActiveServerKey("default") # 0
        /\ RotateServerKey("default"))
       => /\ last'.ok
          /\ ~serverKeys'[GetActiveServerKey("default")].is_active
          /\ GetServerPublicKey("default")' = NewServerKeypair
          /\ GetServerPublicKey("default")' # GetServerPublicKey("default")
    ]_vars

C16_UserKeysGeneratedOnce ==
    [][/\ last'.op = "ensure_user_keys" =>
             \A u \in Users, pw \in PasswordInputs :
                 (userKeys[u].pub # NoKey /\ EnsureUserKeys(u, pw)) =>
                     /\ last'.ok
                     /\ userKeys' = userKeys
       /\ \A u \in Users :
             userKeys[u].pub # NoKey => userKeys'[u] = userKeys[u]
    ]_vars

\* ensure_user_keys has just returned True for a user who had keys since
\* the first login.
C16_Witness ==
    /\ last.op = "ensure_user_keys"
    /\ last.ok
    /\ last.uid \in Uploaders
    /\ userKeys[last.uid].pub = UserKeypair(last.uid)

C18_CustodyRoundTrip ==
    [][/\ last'.op = "ensure_user_keys" =>
             \A u \in Users :
                 (userKeys[u].pub = NoKey /\ last'.ok
                  /\ EnsureUserKeys(u, Password(u))) =>
                     /\ GetUserPublicKey(u)' = FreshUserKeypair(u)
                     /\ GetUserPrivateKey(u, Password(u))'
                            = FreshUserKeypair(u)
       /\ \A u \in Users :
             userKeys'[u].pub # NoKey =>
                 /\ GetUserPrivateKey(u, Password(u))' = userKeys'[u].pub
                 /\ \A pw \in (PasswordInputs \cup {ServerPw})
                                \ {Password(u)} :
                        GetUserPrivateKey(u, pw)' = NoKey
    ]_vars

\* A user who had no keys at the start has had them generated by
\* ensure_user_keys.
C18_Witness ==
    /\ last.op = "ensure_user_keys"
    /\ last.ok
    /\ last.uid \in Users \ Uploaders
    /\ userKeys[last.uid].pub # NoKey

C20_MockRoundTripReturnsKey ==
    kem = "mock" =>
        \A K \in SymmetricKeys, kp \in Keypairs, n \in 1..MaxShares :
            LET e == EncapsulateKey(K, kp, n)
            IN  DecapsulateKey(e.ct, e.w, kp) # NoKey

\* C21: for every plaintext P, the empty one included, and every key K,
\* decrypt_data applied under K to the envelope encrypt_data(P, K) wrote
\* returns P (and not None), and encrypt_data itself returns an envelope.
C21_AeadRoundTrip ==
    [][/\ last'.op = "encrypt_data" => last'.ok
       /\ \A data \in PlaintextInputs, key \in KeyInputs :
             (blobs = <<EncryptData(data, key)>> /\ DecryptDataCall(key))
                 => (last'.ok /\ last'.payload = data
                              /\ last'.payload # NoData)]_vars

\* The empty plaintext was encrypted, read back unchanged and decrypted to
\* the empty plaintext.
C21_Witness ==
    /\ last.op = "decrypt_data"
    /\ last.ok
    /\ last.payload = EmptyData
    /\ \E key \in KeyInputs : blobs = <<EncryptData(EmptyData, key)>>

\* C22: decrypt_data returns None, raises nothing and returns no plaintext,
\* whenever the key is not the key the envelope was encrypted under, or a
\* bit of the stored nonce, tag or ciphertext was changed, or the envelope
\* is too short to hold nonce and tag; a changed envelope fails for every
\* key.
C22_DecryptFailsClosed ==
    [][last'.op = "decrypt_data" =>
       \A key \in KeyInputs :
          (/\ DecryptDataCall(key)
           /\ \/ key # blobs[1].gcm.k
              \/ blobs[1] # EncryptData(blobs[1].gcm.p, blobs[1].gcm.k))
              => (/\ ~last'.ok
                  /\ last'.payload = NoData
                  /\ last'.msg = "")]_vars

\* An envelope with a changed or shortened tag, or a changed ciphertext, was
\* handed to decrypt_data, which returned None.
C22_Witness ==
    /\ last.op = "decrypt_data"
    /\ ~last.ok
    /\ blobs # <<>>
    /\ blobs[1].tag # "intact" \/ blobs[1].ct # "intact"

\* C25: load_kem_provider returns None or a provider whose is_available()
\* is true; provider 'mock' returns MockKEM; when Kyber is not available, or
\* the provider name is unknown, it returns MockKEM if allow_fallback is
\* true and None if it is false.
C25_LoaderFallback ==
    [][last'.op = "load_kem_provider" =>
       \A provider \in ProviderInputs, algorithm \in AlgorithmInputs,
          installed \in BOOLEAN, allow_fallback \in BOOLEAN :
          LoadKemProviderCall(provider, algorithm, installed, allow_fallback)
              => /\ kem' \in KemProviders
                 /\ kem' = "kyber" => KyberIsAvailable(algorithm, installed)
                 /\ last'.ok <=> kem' # "none"
                 /\ Lower(provider) = "mock" => kem' = "mock"
                 /\ (\/ /\ Lower(provider) = "kyber"
                        /\ ~KyberIsAvailable(algorithm, installed)
                     \/ Lower(provider) \notin {"kyber", "mock"})
                        => kem' = IF allow_fallback THEN "mock" ELSE "none"
      ]_vars

\* The loader returned None: Kyber was not available or the name unknown,
\* and fallback was off.
C25_Witness ==
    /\ last.op = "load_kem_provider"
    /\ ~last.ok
    /\ kem = "none"

\* C26: ensure_user_keys, ensure_server_key, rotate_server_key,
\* get_user_private_key and get_server_private_key report every failure of
\* key generation, of the key storage lookup or of private-key decryption in
\* the value they return; no call of them ends in an exception.
C26_FailuresAreValues ==
    [][last'.op \in CustodyCalls => last'.msg # MsgOperationalError]_vars

\* C24: download_shared_file on a public share with a token that is not
\* the share key of the link is rejected and delivers no payload; when the
\* share is active, unexpired and not exhausted the rejection is 'Invalid
\* share link - key mismatch' or a share link validation error.
C24_PublicNeedsLinkKey ==
    [][last'.op \in {"download", "download_begin"} =>
       \A p \in Procs, sid \in ShareIds, tok \in PairTokenInputs,
          u \in PairRequesters :
          (/\ shares[sid].share_type = "public"
           /\ ~B64Valid(tok) \/ B64Decode(tok) # ShareKey(sid)
           /\ DownloadBegin(p, sid, tok, u, 0))
              => /\ req' = req
                 /\ ~last'.ok
                 /\ last'.payload = NoData
                 /\ LifecycleRejection(shares[sid]) = ""
                       => last'.msg \in {MsgKeyMismatch, MsgValidation}]_vars

\* A redemption of a public share with the key of another share's link was
\* rejected as a key mismatch.
C24_Witness ==
    /\ last.op = "download"
    /\ ~last.ok
    /\ last.msg = MsgKeyMismatch
    /\ last.sid \in ShareIds
    /\ shares[last.sid].share_type = "public"

\* C28: download_shared_file and deactivate_share on one share never change
\* the record or the stored payload of any other share, however the
\* requests on the two shares interleave.
C28_SharesIndependent ==
    [][/\ last'.op \in {"download", "download_begin", "deactivate"}
       /\ Len(shares') = Len(shares)
       /\ \A b \in ShareIds :
             b # last'.sid =>
                /\ shares'[b] = shares[b]
                /\ blobs'[shares[b].encrypted_filename]
                      = blobs[shares[b].encrypted_filename]
                /\ delivered'[b] = delivered[b]]_vars

\* Share 1 was redeemed and then deactivated while a redemption of share 2
\* was between its read and its increment; share 2 is untouched.
C28_Witness ==
    /\ Len(shares) = 2
    /\ last.op = "deactivate" /\ last.ok /\ last.sid = 1
    /\ shares[1].download_count = 1
    /\ ~shares[1].is_active
    /\ \E p \in Procs : req[p].pc = "deliver" /\ req[p].sid = 2
    /\ shares[2].is_active
    /\ shares[2].download_count = 0

\* C23: for a file the creator owns, a public create_share_from_file_id
\* followed at once by download_shared_file with the share_id and the token
\* of the returned share_url is accepted, delivers the file's bytes, and
\* takes download_count from 0 to 1.
C23_PublicRoundTrip ==
    [][/\ (last.op = "create" /\ last.ok
              /\ last'.op \in {"download", "download_begin"}) =>
          \A p \in Procs, u \in Requesters, pw \in PasswordInputs :
             (/\ shares[last.sid].share_type = "public"
              /\ DownloadBegin(p, last.sid, B64Encode(ShareKey(last.sid)),
                               u, pw))
                 => /\ shares[last.sid].download_count = 0
                    /\ req'[p].pc = "deliver"
                    /\ req'[p].sid = last.sid
                    /\ \E f \in Files :
                          /\ FileOwner(f) = shares[last.sid].user_id
                          /\ req'[p].payload = FileData(f)
       /\ (last.op = "download_begin" /\ last'.op = "download") =>
          \A p \in Procs :
             (/\ DownloadFinish(p)
              /\ shares[req[p].sid].share_type = "public"
              /\ shares[req[p].sid].download_count = 0)
                 => /\ last'.ok
                    /\ last'.payload # NoData
                    /\ last'.payload = req[p].payload
                    /\ shares'[req[p].sid].download_count = 1]_vars

\* The first redemption of a public share returned the file's bytes and the
\* record counts one download.
C23_Witness ==
    /\ last.op = "download" /\ last.ok
    /\ last.sid \in ShareIds
    /\ shares[last.sid].share_type = "public"
    /\ shares[last.sid].download_count = 1
    /\ \E f \in Files : FileOwner(f) = shares[last.sid].user_id
                        /\ last.payload = FileData(f)

\* C27: once created, a share record changes only by download_count going up
\* by one or is_active going to false: no record disappears, every other
\* field and the stored payload stay as created, download_count never goes
\* down, and is_active never goes from false to true.
C27_RecordFrame ==
    [][/\ Len(shares') >= Len(shares)
       /\ \A sid \in ShareIds :
             /\ [shares'[sid] EXCEPT
                    !.download_count = shares[sid].download_count,
                    !.is_active = shares[sid].is_active] = shares[sid]
             /\ shares'[sid].download_count \in
                    {shares[sid].download_count,
                     shares[sid].download_count + 1}
             /\ ~shares[sid].is_active => ~shares'[sid].is_active
             /\ blobs'[shares[sid].encrypted_filename]
                    = blobs[shares[sid].encrypted_filename]]_vars

\* A share that was redeemed has been deactivated by its owner: the count
\* is kept and the share is inactive.
C27_Witness ==
    /\ last.op = "deactivate" /\ last.ok
    /\ last.sid \in ShareIds
    /\ shares[last.sid].download_count > 0
    /\ ~shares[last.sid].is_active
    /\ last.uid = shares[last.sid].user_id

\* C29: a redemption that is rejected or fails (unknown share, deactivated,
\* expired, limit reached, access denied, missing or wrong password, key
\* mismatch, decryption failure) leaves every share record as it was:
\* download_count is not incremented and is_active is not written.
C29_RejectionWritesNothing ==
    [][(last'.op = "download" /\ ~last'.ok) =>
          /\ shares' = shares
          /\ delivered' = delivered
          /\ blobs' = blobs]_vars

\* A redemption was rejected because the share was expired or had reached
\* its limit, and the share is still active.
C29_Witness ==
    /\ last.op = "download" /\ ~last.ok
    /\ last.msg \in {MsgExpired, MsgLimit}
    /\ last.sid \in ShareIds
    /\ shares[last.sid].is_active

\* C30: a share created with max_downloads = 0 is exhausted from creation:
\* no redemption of it is accepted and none delivers its payload.
C30_ZeroLimitIsExhausted ==
    \A sid \in ShareIds :
        shares[sid].max_downloads = 0 =>
            /\ delivered[sid] = 0
            /\ \A p \in Procs : ~(req[p].pc = "deliver" /\ req[p].sid = sid)

\* C31: the column stored for a private share, kem_ct + b'||' + wrapped,
\* splits on b'||' into exactly the two parts that were joined, whatever
\* bytes they hold; so no redemption is rejected with 'Invalid KEM
\* ciphertext format'.
C31_StoredEncodingSplits ==
    /\ last.msg # MsgInvalidKem
    /\ \A sid \in ShareIds :
          UsesTargetKem(shares[sid]) =>
              LET c == KemCtBytes(shares[sid].target_kem_ciphertext.ct)
                  w == WrappedBytes(shares[sid].target_kem_ciphertext.w)
              IN  SplitBytes(JoinKemCiphertext(c, w)) = <<c, w>>

\* C32: with concurrent workers, whenever no redemption is between its read
\* of the record and its increment, download_count of every share equals the
\* number of redemptions of it that returned a payload: no increment is lost
\* and none is applied without a delivery.
C32_CountMatchesDeliveries ==
    AllIdle => \A sid \in ShareIds :
                  shares[sid].download_count = delivered[sid]

\* Two redemptions of a share limited to one download overlapped and both
\* have returned its payload; both increments are in the record.
C32_Witness ==
    /\ AllIdle
    /\ last.op = "download" /\ last.ok
    /\ \E sid \in ShareIds :
          /\ shares[sid].max_downloads = 1
          /\ delivered[sid] = 2
          /\ shares[sid].download_count = 2

\* C33: creation is all-or-nothing.  A create_share_from_file_id that returns
\* success = False leaves the shares table and the upload folder as they
\* were; one that returns success = True adds exactly one row and exactly
\* one blob and changes no other.
C33_CreateAllOrNothing ==
    [][last'.op = "create" =>
          IF last'.ok
          THEN /\ Len(shares') = Len(shares) + 1
               /\ Len(blobs') = Len(blobs) + 1
               /\ SubSeq(shares', 1, Len(shares)) = shares
               /\ SubSeq(blobs', 1, Len(blobs)) = blobs
          ELSE /\ shares' = shares
               /\ blobs' = blobs
    ]_vars

\* C35: with concurrent workers, once deactivate_share has returned True for
\* a share (its is_active is cleared), no redemption of the share returns a
\* payload and its download_count is never incremented again, whatever
\* redemptions were in flight when it was deactivated.
C35_NoDeliveryAfterDeactivation ==
    [][\A sid \in ShareIds :
          ~shares[sid].is_active =>
              /\ shares'[sid].download_count = shares[sid].download_count
              /\ delivered'[sid] = delivered[sid]
              /\ ~(last'.op = "download" /\ last'.sid = sid /\ last'.ok)
    ]_vars

\* C36: download_shared_file fetches and decrypts a private key, and
\* decapsulates, only after the is_active, expiry, download-limit and, for a
\* private share, requester-identity checks, made in that order.  A request
\* rejected by one of those checks is rejected by the first that fails, with
\* no private key decrypted and no decapsulation attempted; every rejection
\* is that of the last step the handler made.
C36_KeyAfterChecks ==
    [][\A p \in Procs :
          (/\ last'.op \in {"download", "download_begin"}
           /\ FreeWorker(p)
           /\ last'.op = "download" => ~last'.ok /\ last'.sid \in ShareIds
           /\ last'.op = "download_begin" => req'[p].pc = "deliver")
          =>
          LET sid == IF last'.op = "download" THEN last'.sid ELSE req'[p].sid
              u == IF last'.op = "download" THEN last'.uid ELSE req'[p].uid
          IN  \A tok \in TokenInputs, pw \in PasswordInputs :
                DownloadBegin(p, sid, tok, u, pw) =>
                  \A tr \in {DownloadSteps(shares[sid], tok, u, pw)} :
                  LET rec == shares[sid]
                      keyAt == {i \in DOMAIN tr :
                                   tr[i] \in {"get_user_private_key",
                                              "get_server_private_key",
                                              "decapsulate_key"}}
                  IN  /\ tr[Len(tr)] = RejectedBy[last'.msg]
                      /\ \A i \in keyAt :
                            /\ i > 3
                            /\ SubSeq(tr, 1, 3) =
                                  <<"is_active", "expiry_time", "max_downloads">>
                            /\ rec.share_type = "private" =>
                                  /\ i > 6
                                  /\ SubSeq(tr, 4, 6) =
                                        <<"current_user_id", "target_user_id",
                                          "user_password">>
                      /\ last'.msg \in {MsgDeactivated, MsgExpired, MsgLimit,
                                        MsgAuthRequired, MsgAccessDenied} =>
                            /\ keyAt = {}
                            /\ req' = req
                      /\ req'[p].pw # 0 =>
                            \E i \in keyAt : tr[i] = "get_user_private_key"
    ]_vars

\* A requester who has keys of their own has just been refused a private
\* share wrapped for another user, with their correct password supplied.
C36_Witness ==
    /\ last.op = "download" /\ ~last.ok
    /\ last.msg = MsgAccessDenied
    /\ last.sid \in ShareIds
    /\ UsesTargetKem(shares[last.sid])
    /\ kem = "kyber"
    /\ GetUserPrivateKey(last.uid, Password(last.uid)) # NoKey

\* C37: for a private share the link token does not influence the outcome.
\* Whatever a redemption made with one base64-decodable token does (the
\* payload it holds for delivery, or the message it is rejected with), the
\* same redemption made with any other decodable token does too; so the
\* target with the correct password is served the same with either.
C37_TokenIrrelevantForPrivate ==
    [][\A p \in Procs :
          (/\ last'.op \in {"download", "download_begin"}
           /\ FreeWorker(p)
           /\ last'.op = "download" => ~last'.ok /\ last'.sid \in ShareIds
           /\ last'.op = "download_begin" => req'[p].pc = "deliver")
          =>
          LET sid == IF last'.op = "download" THEN last'.sid ELSE req'[p].sid
              u == IF last'.op = "download" THEN last'.uid ELSE req'[p].uid
          IN  shares[sid].share_type = "private" =>
                \A tok \in TokenInputs, pw \in PasswordInputs :
                    (B64Valid(tok) /\ DownloadBegin(p, sid, tok, u, pw)) =>
                        \A k \in KeyInputs :
                            DownloadBegin(p, sid, B64Encode(k), u, pw)
    ]_vars

\* The target of a private share has just been handed its payload.
C37_Witness ==
    /\ last.op = "download" /\ last.ok
    /\ last.payload # NoData
    /\ last.sid \in ShareIds
    /\ shares[last.sid].share_type = "private"
    /\ last.uid = shares[last.sid].target_user_id

\* C34: when logins of one user who has no keys run ensure_user_keys
\* concurrently, one keypair is kept: once the user's row holds a public key
\* (so get_user_public_key returns it), the row holds that same public key
\* and the same encrypted private key in every later state.
C34_OneKeypairKept ==
    [][\A u \in Users :
          GetUserPublicKey(u) # NoKey => userKeys'[u] = userKeys[u]
    ]_vars

====
